---- MODULE Spec2Model ----
(***************************************************************************)
(* tokio-serial: a serial port (mio_serial::SerialPort) wrapped in a       *)
(* tokio_core PollEvented and exposed as the non-blocking SerialPort       *)
(* handle of src/src/lib.rs, with the example consumer Reader of           *)
(* src/examples/tail.rs.                                                   *)
(*                                                                         *)
(* The raw port and the reactor are the crate's collaborators; they are    *)
(* modelled as a loopback device whose next answer can be forced to an     *)
(* error, and as a table of registrations with cached readiness.           *)
(***************************************************************************)
EXTENDS Integers, Sequences, FiniteSets, TLC

\* ------------------------------------------------------------------ bounds
MaxHandles == 2     \* handle slots (live SerialPort values at one time)
MaxMsg == 3         \* bytes the writing caller has to send
MaxBuf == 2         \* largest read buffer / write chunk a caller passes
MaxTimeouts == 2    \* timeouts in a row the device reports to the Reader

Slots == 1..MaxHandles
Tokens == 1..MaxHandles
Fds == 1..MaxHandles
Msg == [i \in 1..MaxMsg |-> i]
Refs == {"owned", "shared"}
FatalCauses == {"EIO", "ENODEV"}

Min(a, b) == IF a < b THEN a ELSE b
Max(a, b) == IF a > b THEN a ELSE b
Drop(s, n) == SubSeq(s, n + 1, Len(s))
Zeros(n) == [i \in 1..n |-> 0]

\* ---------------------------------------------------------- io::Result
Ok(n) == [kind |-> "Ok", n |-> n, cause |-> "none"]
Err(kind, cause) == [kind |-> kind, n |-> 0, cause |-> cause]
WouldBlock == Err("WouldBlock", "EAGAIN")
TimedOut == Err("TimedOut", "ETIMEDOUT")
Glitches == {WouldBlock, TimedOut} \cup {Err("Other", c) : c \in FatalCauses}
IsErr(r) == r.kind # "Ok"

VARIABLES
    handles,      \* slot -> the SerialPort value living there (or none)
    sched,        \* token -> the reactor's registration and cached readiness
    fds,          \* descriptors open on the device
    devHeld,      \* the device is held open by some descriptor
    dev,          \* the device: pending input and the forced next answer, if any
    devAccepted,  \* history: bytes the device accepted from writes
    devConsumed,  \* history: bytes removed from the device's input
    toWrite,      \* the writing caller's remaining slice
    reported,     \* history: bytes write calls reported as written
    rcvd,         \* history: bytes read calls returned to callers
    last,         \* the most recent call on the crate's API and its outcome
    drv,          \* the example Reader task: its position inside poll
    fut           \* the future of tests::futures: its parts and its outcome

vars == <<handles, sched, fds, devHeld, dev, devAccepted, devConsumed,
          toWrite, reported, rcvd, last, drv, fut>>

NoHandle == [live |-> FALSE, fd |-> 0, tok |-> 0, dupOf |-> 0]
Unreg == [reg |-> FALSE, fd |-> 0, r |-> FALSE, w |-> FALSE]
\* A call record: the operation, the handle slot and kind of reference it
\* went through, the buffer length passed, the result returned, the calls
\* made on io, the raw port's answers, the bytes the caller passed (write)
\* or got (read), the bytes that moved at the device, and the
\* registrations attempted.
NoCall == [op |-> "none", h |-> 0, ref |-> "owned", len |-> 0, res |-> Ok(0),
           attempts |-> 0, answers |-> <<>>, data |-> <<>>, moved |-> <<>>,
           regs |-> 0]

\* The Reader task before its first poll. reads, raw and timeouts count the
\* read calls, the raw port's answers and the timeouts of the current
\* streak: a streak starts when poll is entered and after each Ok. oks
\* tells whether a read of the current invocation returned Ok, ret is the
\* value poll returned, and woken whether the reactor has notified the
\* parked task.
NoTask == [pc |-> "idle", h |-> 0, res |-> Ok(0), reads |-> 0, raw |-> 0,
           timeouts |-> 0, oks |-> FALSE, woken |-> FALSE,
           ret |-> [kind |-> "Pending", n |-> 0, cause |-> "none"]]

\* The future of tests::futures before core.run: the write task on the
\* handle o, the read task on its duplicate c, the arm on which the race of
\* the read task against the timer completed, the timer, and where a
\* running poll of the future is at.
NoTest == [st |-> "idle", at |-> "wait", polled |-> FALSE, w |-> "pending",
           r |-> "pending", won |-> "none", timer |-> "off", o |-> 0, c |-> 0]

Init ==
    /\ handles = [s \in Slots |-> NoHandle]
    /\ sched = [t \in Tokens |-> Unreg]
    /\ fds = {}
    /\ devHeld = FALSE
    /\ dev = [in |-> <<>>, glitch |-> <<>>, loop |-> TRUE]
    /\ devAccepted = <<>>
    /\ devConsumed = <<>>
    /\ toWrite = Msg
    /\ reported = <<>>
    /\ rcvd = <<>>
    /\ last = NoCall
    /\ drv = NoTask
    /\ fut = NoTest

\* ------------------------------------------------------------ raw port
\* One non-blocking read on the descriptor. A forced answer is reported
\* first; otherwise the device hands over between one byte and
\* what fits, or, with nothing pending, would-block or a zero-length read.
RawRead(d, buflen, pick) ==
    IF d.glitch # <<>>
    THEN [res |-> Head(d.glitch), dev |-> [d EXCEPT !.glitch = Tail(@)],
          moved |-> <<>>]
    ELSE IF d.in = <<>>
    THEN [res |-> IF pick = 0 THEN Ok(0) ELSE WouldBlock, dev |-> d,
          moved |-> <<>>]
    ELSE LET n == Min(Max(pick, 1), Min(buflen, Len(d.in))) IN
         [res |-> Ok(n), dev |-> [d EXCEPT !.in = Drop(@, n)],
          moved |-> SubSeq(d.in, 1, n)]

\* One non-blocking write: the device accepts a non-empty prefix of the
\* chunk, which a loopback makes its own pending input.
RawWrite(d, chunk, pick) ==
    IF d.glitch # <<>>
    THEN [res |-> Head(d.glitch), dev |-> [d EXCEPT !.glitch = Tail(@)],
          moved |-> <<>>]
    ELSE LET n == IF chunk = <<>> THEN 0 ELSE Min(Max(pick, 1), Len(chunk)) IN
         [res |-> Ok(n),
          dev |-> IF d.loop THEN [d EXCEPT !.in = @ \o SubSeq(chunk, 1, n)] ELSE d,
          moved |-> SubSeq(chunk, 1, n)]

RawFlush(d) ==
    IF d.glitch # <<>>
    THEN [res |-> Head(d.glitch), dev |-> [d EXCEPT !.glitch = Tail(@)],
          moved |-> <<>>]
    ELSE [res |-> Ok(0), dev |-> d, moved |-> <<>>]

\* --------------------------------------------------------- PollEvented
\* The readiness adapter around the raw port: an I/O call is let through
\* only while the direction is cached ready, and a would-block answer from
\* the raw port clears the cache.
PollEvented_poll_read(io) == IF io.r THEN "Ready" ELSE "NotReady"
PollEvented_poll_write(io) == IF io.w THEN "Ready" ELSE "NotReady"

PollEvented_read(io, d, buflen, pick) ==
    IF PollEvented_poll_read(io) = "NotReady"
    THEN [res |-> WouldBlock, io |-> io, dev |-> d, moved |-> <<>>,
          answers |-> <<>>]
    ELSE LET rr == RawRead(d, buflen, pick) IN
         [res |-> rr.res,
          io |-> IF rr.res.kind = "WouldBlock" THEN [io EXCEPT !.r = FALSE] ELSE io,
          dev |-> rr.dev, moved |-> rr.moved, answers |-> <<rr.res>>]

PollEvented_write(io, d, chunk, pick) ==
    IF PollEvented_poll_write(io) = "NotReady"
    THEN [res |-> WouldBlock, io |-> io, dev |-> d, moved |-> <<>>,
          answers |-> <<>>]
    ELSE LET rr == RawWrite(d, chunk, pick) IN
         [res |-> rr.res,
          io |-> IF rr.res.kind = "WouldBlock" THEN [io EXCEPT !.w = FALSE] ELSE io,
          dev |-> rr.dev, moved |-> rr.moved, answers |-> <<rr.res>>]

PollEvented_flush(io, d) ==
    IF PollEvented_poll_write(io) = "NotReady"
    THEN [res |-> WouldBlock, io |-> io, dev |-> d, moved |-> <<>>,
          answers |-> <<>>]
    ELSE LET rr == RawFlush(d) IN
         [res |-> rr.res,
          io |-> IF rr.res.kind = "WouldBlock" THEN [io EXCEPT !.w = FALSE] ELSE io,
          dev |-> rr.dev, moved |-> rr.moved, answers |-> <<rr.res>>]

\* A call's outcome as the handle hands it on, with the number of calls it
\* made on its io field.
Outcome(a, n) ==
    [res |-> a.res, io |-> a.io, dev |-> a.dev, moved |-> a.moved,
     answers |-> a.answers, attempts |-> n]

\* ---------------------------------------------------------- SerialPort
\* Variants of read with a plausible slip each.
\* A read that tries once more after a would-block.
SerialPort_read_spin(io, d, buflen, pick) ==
    LET a == PollEvented_read(io, d, buflen, pick) IN
    IF a.res.kind = "WouldBlock"
    THEN LET b == PollEvented_read(a.io, a.dev, buflen, pick) IN
         [res |-> b.res, io |-> b.io, dev |-> b.dev, moved |-> a.moved \o b.moved,
          answers |-> a.answers \o b.answers, attempts |-> 2]
    ELSE Outcome(a, 1)

\* A read that wraps a fatal error in a new one, losing its cause.
SerialPort_read_rewrap(io, d, buflen, pick) ==
    LET a == PollEvented_read(io, d, buflen, pick) IN
    Outcome([a EXCEPT !.res = IF @.kind = "Other" THEN Err("Other", "none") ELSE @], 1)

\* A read that reports the buffer's length instead of the count read.
SerialPort_read_len(io, d, buflen, pick) ==
    LET a == PollEvented_read(io, d, buflen, pick) IN
    Outcome([a EXCEPT !.res = IF @.kind = "Ok" THEN Ok(buflen) ELSE @], 1)

\* A read that takes a short read for not-ready.
SerialPort_read_short(io, d, buflen, pick) ==
    LET a == PollEvented_read(io, d, buflen, pick) IN
    Outcome([a EXCEPT !.res = IF @.kind = "Ok" /\ @.n < buflen
                                THEN WouldBlock ELSE @], 1)

\* impl Read / Write / Io for SerialPort: each method is one call on io.
SerialPort_read(io, d, buflen, pick) ==
    Outcome(PollEvented_read(io, d, buflen, pick), 1)

\* A write that retries after a timeout, as a read loop would.
SerialPort_write_retry(io, d, chunk, pick) ==
    LET a == PollEvented_write(io, d, chunk, pick) IN
    IF a.res.kind = "TimedOut"
    THEN LET b == PollEvented_write(a.io, a.dev, chunk, pick) IN
         [res |-> b.res, io |-> b.io, dev |-> b.dev, moved |-> a.moved \o b.moved,
          answers |-> a.answers \o b.answers, attempts |-> 2]
    ELSE Outcome(a, 1)

\* A write that reports the whole chunk as written.
SerialPort_write_all(io, d, chunk, pick) ==
    LET a == PollEvented_write(io, d, chunk, pick) IN
    Outcome([a EXCEPT !.res = IF @.kind = "Ok" THEN Ok(Len(chunk)) ELSE @], 1)

SerialPort_write(io, d, chunk, pick) ==
    Outcome(PollEvented_write(io, d, chunk, pick), 1)

SerialPort_flush(io, d) ==
    Outcome(PollEvented_flush(io, d), 1)

\* A poll_read that asks the adapter about the write direction.
SerialPort_poll_read_w(io) == PollEvented_poll_write(io)

SerialPort_poll_read(io) == PollEvented_poll_read(io)
SerialPort_poll_write(io) == PollEvented_poll_write(io)
Io_poll_read(io) == SerialPort_poll_read(io)
Io_poll_write(io) == SerialPort_poll_write(io)

\* A shared-reference read that goes to the port inside io directly.
RefSerialPort_read_bypass(io, d, buflen, pick) ==
    LET rr == RawRead(d, buflen, pick) IN
    [res |-> rr.res, io |-> io, dev |-> rr.dev, moved |-> rr.moved,
     answers |-> <<rr.res>>, attempts |-> 1]

\* impl Read / Write / Io for &SerialPort: the same calls on &self.io.
RefSerialPort_read(io, d, buflen, pick) ==
    Outcome(PollEvented_read(io, d, buflen, pick), 1)

RefSerialPort_write(io, d, chunk, pick) ==
    Outcome(PollEvented_write(io, d, chunk, pick), 1)

RefSerialPort_flush(io, d) ==
    Outcome(PollEvented_flush(io, d), 1)

RefIo_poll_read(io) == SerialPort_poll_read(io)
RefIo_poll_write(io) == SerialPort_poll_write(io)

\* What the caller finds in buf[..n] after a read that returned Ok(n): the
\* buffer starts zeroed and the raw read filled its front.
Delivered(out, buflen) ==
    IF out.res.kind = "Ok"
    THEN SubSeq(out.moved \o Zeros(buflen), 1, out.res.n)
    ELSE <<>>

Async(x) == [kind |-> x, n |-> 0, cause |-> "none"]

Call(op, h, ref, len, out, data, moved) ==
    [op |-> op, h |-> h, ref |-> ref, len |-> len, res |-> out.res,
     attempts |-> out.attempts, answers |-> out.answers, data |-> data,
     moved |-> moved, regs |-> 0]

\* ------------------------------------------------------------- actions
\* A handle a caller can use: a live one that has not been moved into the
\* Reader task or into a task of the test.
Held(h) == handles[h].live /\ drv.h # h /\ h \notin {fut.o, fut.c}

ReadCall(h, ref, buflen, pick) ==
    /\ Held(h)
    /\ LET t == handles[h].tok
           out == IF ref = "owned"
                  THEN SerialPort_read(sched[t], dev, buflen, pick)
                  ELSE RefSerialPort_read(sched[t], dev, buflen, pick)
           data == Delivered(out, buflen)
           gone == SubSeq(dev.in, 1, Len(dev.in) - Len(out.dev.in))
       IN  /\ sched' = [sched EXCEPT ![t] = out.io]
           /\ dev' = out.dev
           /\ devConsumed' = devConsumed \o gone
           /\ rcvd' = rcvd \o data
           /\ last' = Call("read", h, ref, buflen, out, data, gone)
    /\ UNCHANGED <<fut, drv, handles, fds, devHeld, devAccepted, toWrite, reported>>

\* The writing caller hands over a chunk of its remaining slice and keeps
\* what the call did not report as written.
WriteCall(h, ref, len, pick) ==
    /\ Held(h)
    /\ len <= Len(toWrite)
    /\ LET t == handles[h].tok
           chunk == SubSeq(toWrite, 1, len)
           out == IF ref = "owned"
                  THEN SerialPort_write(sched[t], dev, chunk, pick)
                  ELSE RefSerialPort_write(sched[t], dev, chunk, pick)
           n == IF out.res.kind = "Ok" THEN out.res.n ELSE 0
           taken == SubSeq(out.dev.in, Len(dev.in) + 1, Len(out.dev.in))
       IN  /\ sched' = [sched EXCEPT ![t] = out.io]
           /\ dev' = out.dev
           /\ devAccepted' = devAccepted \o taken
           /\ reported' = reported \o SubSeq(chunk, 1, n)
           /\ toWrite' = Drop(toWrite, n)
           /\ last' = Call("write", h, ref, len, out, chunk, taken)
    /\ UNCHANGED <<fut, drv, handles, fds, devHeld, devConsumed, rcvd>>

FlushCall(h, ref) ==
    /\ Held(h)
    /\ LET t == handles[h].tok
           out == IF ref = "owned"
                  THEN SerialPort_flush(sched[t], dev)
                  ELSE RefSerialPort_flush(sched[t], dev)
       IN  /\ sched' = [sched EXCEPT ![t] = out.io]
           /\ dev' = out.dev
           /\ last' = Call("flush", h, ref, 0, out, <<>>, <<>>)
    /\ UNCHANGED <<fut, drv, handles, fds, devHeld, devAccepted, devConsumed, toWrite,
                   reported, rcvd>>

PollReadCall(h, ref) ==
    /\ Held(h)
    /\ LET io == sched[handles[h].tok]
           a == IF ref = "owned" THEN Io_poll_read(io) ELSE RefIo_poll_read(io)
       IN  last' = [NoCall EXCEPT !.op = "poll_read", !.h = h, !.ref = ref,
                                !.res = Async(a)]
    /\ UNCHANGED <<fut, drv, handles, sched, fds, devHeld, dev, devAccepted,
                   devConsumed, toWrite, reported, rcvd>>

PollWriteCall(h, ref) ==
    /\ Held(h)
    /\ LET io == sched[handles[h].tok]
           a == IF ref = "owned" THEN Io_poll_write(io) ELSE RefIo_poll_write(io)
       IN  last' = [NoCall EXCEPT !.op = "poll_write", !.h = h, !.ref = ref,
                                !.res = Async(a)]
    /\ UNCHANGED <<fut, drv, handles, sched, fds, devHeld, dev, devAccepted,
                   devConsumed, toWrite, reported, rcvd>>

Registered == {t \in Tokens : sched[t].reg}

\* The task, if any, that waits for the source of token t to become
\* readable is notified.
Notified(t) ==
    IF drv.pc = "parked" /\ handles[drv.h].tok = t
    THEN [drv EXCEPT !.woken = TRUE]
    ELSE drv

\* The reactor sees an event for a registered source, marks it ready and
\* notifies the task that waits for it.
MarkReady(t, dir) ==
    /\ sched[t].reg
    /\ \/ /\ dir = "r" /\ ~sched[t].r
          /\ sched' = [sched EXCEPT ![t].r = TRUE]
          /\ drv' = Notified(t)
       \/ /\ dir = "w" /\ ~sched[t].w
          /\ sched' = [sched EXCEPT ![t].w = TRUE]
          /\ drv' = drv
    /\ UNCHANGED <<fut, handles, fds, devHeld, dev, devAccepted, devConsumed,
                   toWrite, reported, rcvd, last>>

\* The device layer is set to answer its next call with an error.
DeviceGlitch(g) ==
    /\ devHeld
    /\ dev.glitch = <<>>
    /\ drv.timeouts < MaxTimeouts
    /\ dev' = [dev EXCEPT !.glitch = Append(@, g)]
    /\ UNCHANGED <<fut, drv, handles, sched, fds, devHeld, devAccepted, devConsumed,
                   toWrite, reported, rcvd, last>>

\* ----------------------------------------------------------- lifecycle
FreeSlot(hs) == CHOOSE s \in Slots : ~hs[s].live /\ \A u \in Slots : ~hs[u].live => s <= u
FreeTok(sch) == CHOOSE t \in Tokens : ~sch[t].reg /\ \A u \in Tokens : ~sch[u].reg => t <= u
FreeFd(open) == CHOOSE f \in Fds : f \notin open /\ \A g \in Fds \ open : f <= g

OpenError == Err("Other", "ENOENT")
DupError == Err("Other", "EMFILE")
RegError == Err("Other", "EREG")

\* A new that keeps the port's descriptor open when registering it fails.
SerialPort_new_leak(sch, open, fd, regOk) ==
    IF regOk
    THEN LET t == FreeTok(sch) IN
         [res |-> Ok(0), tok |-> t, fd |-> fd, regs |-> 1,
          sched |-> [sch EXCEPT ![t] = [reg |-> TRUE, fd |-> fd,
                                        r |-> FALSE, w |-> FALSE]],
          fds |-> open \cup {fd}]
    ELSE [res |-> RegError, tok |-> 0, fd |-> 0, regs |-> 1,
          sched |-> sch, fds |-> open \cup {fd}]

\* SerialPort::new: PollEvented::new registers the port with the reactor;
\* on failure try! returns the error and the port it was given is dropped.
\* A new registration has no readiness cached.
SerialPort_new(sch, open, fd, regOk) ==
    IF regOk
    THEN LET t == FreeTok(sch) IN
         [res |-> Ok(0), tok |-> t, fd |-> fd, regs |-> 1,
          sched |-> [sch EXCEPT ![t] = [reg |-> TRUE, fd |-> fd,
                                        r |-> FALSE, w |-> FALSE]],
          fds |-> open \cup {fd}]
    ELSE [res |-> RegError, tok |-> 0, fd |-> 0, regs |-> 1,
          sched |-> sch, fds |-> open]

\* SerialPort::open_with_settings / _open_with_settings.
SerialPort_open_with_settings(sch, open, openOk, regOk) ==
    IF ~openOk
    THEN [res |-> OpenError, tok |-> 0, fd |-> 0, regs |-> 0,
          sched |-> sch, fds |-> open]
    ELSE SerialPort_new(sch, open, FreeFd(open), regOk)

\* A try_clone that registers the original's descriptor a second time
\* instead of a duplicate of it.
SerialPort_try_clone_share(sch, open, dupOk, regOk) ==
    IF ~dupOk
    THEN [res |-> DupError, tok |-> 0, fd |-> 0, regs |-> 0,
          sched |-> sch, fds |-> open]
    ELSE SerialPort_new(sch, open, CHOOSE f \in open : TRUE, regOk)

\* A try_clone that hands out the original's registration and descriptor
\* instead of making new ones.
SerialPort_try_clone_alias(sch, open, dupOk, regOk) ==
    IF ~dupOk
    THEN [res |-> DupError, tok |-> 0, fd |-> 0, regs |-> 0,
          sched |-> sch, fds |-> open]
    ELSE LET t == CHOOSE u \in Tokens : sch[u].reg IN
         [res |-> Ok(0), tok |-> t, fd |-> sch[t].fd, regs |-> 0,
          sched |-> sch, fds |-> open]

\* A try_clone that registers the existing sources anew, which forgets
\* the readiness cached for them.
SerialPort_try_clone_reset(sch, open, dupOk, regOk) ==
    LET anew == [t \in Tokens |->
                   IF sch[t].reg THEN [sch[t] EXCEPT !.r = FALSE, !.w = FALSE]
                   ELSE sch[t]]
    IN  IF ~dupOk
        THEN [res |-> DupError, tok |-> 0, fd |-> 0, regs |-> 0,
              sched |-> anew, fds |-> open]
        ELSE SerialPort_new(anew, open, FreeFd(open), regOk)

\* SerialPort::try_clone: duplicate the descriptor, then register the
\* duplicate on its own.
SerialPort_try_clone(sch, open, dupOk, regOk) ==
    IF ~dupOk
    THEN [res |-> DupError, tok |-> 0, fd |-> 0, regs |-> 0,
          sched |-> sch, fds |-> open]
    ELSE SerialPort_new(sch, open, FreeFd(open), regOk)

\* A drop that closes the descriptor and leaves the registration behind.
SerialPort_drop_leak(sch, open, hd) ==
    [sched |-> sch, fds |-> open \ {hd.fd}]

\* Dropping a SerialPort drops its io field: the PollEvented deregisters
\* the source and the port inside it closes its descriptor.
SerialPort_drop(sch, open, hd) ==
    [sched |-> [sch EXCEPT ![hd.tok] = Unreg], fds |-> open \ {hd.fd}]

Made(op, h, new) ==
    [NoCall EXCEPT !.op = op, !.h = h, !.res = new.res, !.regs = new.regs]

Open(openOk, regOk) ==
    /\ ~devHeld
    /\ \E s \in Slots : ~handles[s].live
    /\ LET s == FreeSlot(handles)
           new == SerialPort_open_with_settings(sched, fds, openOk, regOk)
       IN  /\ sched' = new.sched
           /\ fds' = new.fds
           /\ devHeld' = (new.fds # {})
           /\ handles' = IF new.res.kind = "Ok"
                         THEN [handles EXCEPT ![s] = [live |-> TRUE, fd |-> new.fd,
                                                      tok |-> new.tok, dupOf |-> 0]]
                         ELSE handles
           /\ last' = Made("open", IF new.res.kind = "Ok" THEN s ELSE 0, new)
    /\ UNCHANGED <<fut, drv, dev, devAccepted, devConsumed, toWrite, reported, rcvd>>

TryClone(h, dupOk, regOk) ==
    /\ Held(h)
    /\ \E s \in Slots : ~handles[s].live
    /\ LET s == FreeSlot(handles)
           new == SerialPort_try_clone(sched, fds, dupOk, regOk)
       IN  /\ sched' = new.sched
           /\ fds' = new.fds
           /\ devHeld' = (new.fds # {})
           /\ handles' = IF new.res.kind = "Ok"
                         THEN [handles EXCEPT ![s] = [live |-> TRUE, fd |-> new.fd,
                                                      tok |-> new.tok, dupOf |-> h]]
                         ELSE handles
           /\ last' = Made("try_clone", h, new)
    /\ UNCHANGED <<fut, drv, dev, devAccepted, devConsumed, toWrite, reported, rcvd>>

DropHandle(h) ==
    /\ Held(h)
    /\ LET new == SerialPort_drop(sched, fds, handles[h])
       IN  /\ sched' = new.sched
           /\ fds' = new.fds
           /\ devHeld' = (new.fds # {})
    /\ handles' = [handles EXCEPT ![h] = NoHandle]
    /\ last' = [NoCall EXCEPT !.op = "drop", !.h = h]
    /\ UNCHANGED <<fut, drv, dev, devAccepted, devConsumed, toWrite, reported, rcvd>>

\* -------------------------------------------------------------- Reader
\* The match as try_nb! would make it: every error but would-block ends
\* the task.
Reader_match_try_nb(res) ==
    CASE res.kind = "Ok" -> [pc |-> "loop", ret |-> Async("Pending")]
      [] res.kind = "WouldBlock" -> [pc |-> "parked", ret |-> Async("NotReady")]
      [] OTHER -> [pc |-> "failed", ret |-> res]

\* A match that retries at once on would-block, as it does on a timeout.
Reader_match_spin(res) ==
    CASE res.kind = "Ok" -> [pc |-> "loop", ret |-> Async("Pending")]
      [] res.kind = "TimedOut" -> [pc |-> "loop", ret |-> Async("Pending")]
      [] res.kind = "WouldBlock" -> [pc |-> "loop", ret |-> Async("Pending")]
      [] OTHER -> [pc |-> "failed", ret |-> res]

\* A match that yields after every successful read instead of reading on.
Reader_match_once(res) ==
    CASE res.kind = "Ok" -> [pc |-> "parked", ret |-> Async("NotReady")]
      [] res.kind = "TimedOut" -> [pc |-> "loop", ret |-> Async("Pending")]
      [] res.kind = "WouldBlock" -> [pc |-> "parked", ret |-> Async("NotReady")]
      [] OTHER -> [pc |-> "failed", ret |-> res]

\* A match that takes a zero-length read for the end of the stream and
\* completes the task.
Reader_match_eof(res) ==
    CASE res.kind = "Ok" /\ res.n = 0 -> [pc |-> "done", ret |-> Async("Ready")]
      [] res.kind = "Ok" -> [pc |-> "loop", ret |-> Async("Pending")]
      [] res.kind = "TimedOut" -> [pc |-> "loop", ret |-> Async("Pending")]
      [] res.kind = "WouldBlock" -> [pc |-> "parked", ret |-> Async("NotReady")]
      [] OTHER -> [pc |-> "failed", ret |-> res]

\* The match of Reader::poll on the result of self.port.read(&mut buf):
\* where poll goes next and what it returns: nothing yet while it loops,
\* Ok(Async::NotReady), or Err(e.into()) with the error of the read.
Reader_match(res) ==
    CASE res.kind = "Ok" -> [pc |-> "loop", ret |-> Async("Pending")]
      [] res.kind = "TimedOut" -> [pc |-> "loop", ret |-> Async("Pending")]
      [] res.kind = "WouldBlock" -> [pc |-> "parked", ret |-> Async("NotReady")]
      [] OTHER -> [pc |-> "failed", ret |-> res]

\* The executor polls the task: at first unconditionally, later when the
\* reactor has notified it that the source it parked on became readable.
ReaderPoll(h) ==
    /\ handles[h].live
    /\ \/ drv.pc = "idle"
       \/ drv.pc = "parked" /\ drv.h = h /\ drv.woken
    /\ drv' = [NoTask EXCEPT !.pc = "loop", !.h = h]
    /\ UNCHANGED <<fut, handles, sched, fds, devHeld, dev, devAccepted,
                   devConsumed, toWrite, reported, rcvd, last>>

\* One turn of the loop in Reader::poll: a read into the buffer, then the
\* match on its result.
ReaderStep(pick) ==
    /\ drv.pc = "loop"
    /\ LET h == drv.h
           t == handles[h].tok
           out == SerialPort_read(sched[t], dev, MaxBuf, pick)
           data == Delivered(out, MaxBuf)
           gone == SubSeq(dev.in, 1, Len(dev.in) - Len(out.dev.in))
           go == Reader_match(out.res)
           fresh == drv.res.kind = "Ok"
       IN  /\ sched' = [sched EXCEPT ![t] = out.io]
           /\ dev' = out.dev
           /\ devConsumed' = devConsumed \o gone
           /\ rcvd' = rcvd \o data
           /\ last' = Call("read", h, "owned", MaxBuf, out, data, gone)
           /\ drv' = [pc |-> go.pc, h |-> h, res |-> out.res,
                      reads |-> (IF fresh THEN 0 ELSE drv.reads) + out.attempts,
                      raw |-> (IF fresh THEN 0 ELSE drv.raw) + Len(out.answers),
                      timeouts |-> (IF fresh THEN 0 ELSE drv.timeouts)
                                   + (IF out.res.kind = "TimedOut" THEN 1 ELSE 0),
                      oks |-> (drv.oks \/ out.res.kind = "Ok"),
                      woken |-> FALSE, ret |-> go.ret]
    /\ UNCHANGED <<fut, handles, fds, devHeld, devAccepted, toWrite, reported>>

\* main unwraps the error the task ended with: the process exits and the
\* port the Reader owned is dropped.
ReaderExit ==
    /\ drv.pc = "failed"
    /\ LET new == SerialPort_drop(sched, fds, handles[drv.h])
       IN  /\ sched' = new.sched
           /\ fds' = new.fds
           /\ devHeld' = (new.fds # {})
    /\ handles' = [handles EXCEPT ![drv.h] = NoHandle]
    /\ last' = [NoCall EXCEPT !.op = "drop", !.h = drv.h]
    /\ drv' = [drv EXCEPT !.pc = "exited"]
    /\ UNCHANGED <<fut, dev, devAccepted, devConsumed, toWrite, reported, rcvd>>

\* The peer on the line sends the next byte, which the device queues as
\* input.
PeerSend ==
    /\ devHeld
    /\ toWrite # <<>>
    /\ dev' = [dev EXCEPT !.in = Append(@, Head(toWrite))]
    /\ devAccepted' = Append(devAccepted, Head(toWrite))
    /\ toWrite' = Tail(toWrite)
    /\ UNCHANGED <<fut, handles, sched, fds, devHeld, devConsumed, reported, rcvd,
                   last, drv>>

\* A byte arrives at the device. The readiness is edge-triggered: the
\* arrival is the event on which the reactor marks the sources of the
\* device readable and notifies the task that waits for one.
DataArrives ==
    /\ devHeld
    /\ toWrite # <<>>
    /\ dev' = [dev EXCEPT !.in = Append(@, Head(toWrite))]
    /\ devAccepted' = Append(devAccepted, Head(toWrite))
    /\ toWrite' = Tail(toWrite)
    /\ sched' = [t \in Tokens |->
                   IF sched[t].reg THEN [sched[t] EXCEPT !.r = TRUE] ELSE sched[t]]
    /\ drv' = IF drv.pc = "parked" THEN [drv EXCEPT !.woken = TRUE] ELSE drv
    /\ UNCHANGED <<fut, handles, fds, devHeld, devConsumed, reported, rcvd, last>>

\* ---------------------------------------------------------- the test
\* The buffer of ReadPort::poll holds more than the whole message.
TestBuf == MaxMsg

\* WritePort::poll: try_nb! turns would-block into NotReady and any other
\* error into the task's error; the assertion wants a non-empty write.
WritePort_poll(io, d, chunk, pick) ==
    LET out == SerialPort_write(io, d, chunk, pick) IN
    [out |-> out,
     ret |-> CASE out.res.kind = "WouldBlock" -> "NotReady"
               [] out.res.kind = "Ok" -> IF out.res.n > 0 THEN "Ready" ELSE "Panic"
               [] OTHER -> "Err"]

\* A ReadPort::poll that uses try! where the code uses try_nb!.
ReadPort_poll_try(io, d, pick) ==
    LET out == SerialPort_read(io, d, TestBuf, pick) IN
    [out |-> out,
     ret |-> CASE out.res.kind = "Ok" -> IF out.res.n > 0 THEN "Ready" ELSE "Panic"
               [] OTHER -> "Err"]

\* ReadPort::poll.
ReadPort_poll(io, d, pick) ==
    LET out == SerialPort_read(io, d, TestBuf, pick) IN
    [out |-> out,
     ret |-> CASE out.res.kind = "WouldBlock" -> "NotReady"
               [] out.res.kind = "Ok" -> IF out.res.n > 0 THEN "Ready" ELSE "Panic"
               [] OTHER -> "Err"]

\* The device named by SERIAL_PORT has no loopback.
PlainDevice ==
    /\ ~devHeld
    /\ dev.loop
    /\ fut.st = "idle"
    /\ dev' = [dev EXCEPT !.loop = FALSE]
    /\ UNCHANGED <<handles, sched, fds, devHeld, devAccepted, devConsumed,
                   toWrite, reported, rcvd, last, drv, fut>>

\* tests::futures after the port is opened and duplicated: the handle
\* moves into the write task, the duplicate into the read task, the timer
\* is armed and core.run starts.
TestRun ==
    /\ fut.st = "idle"
    /\ drv.pc = "idle"
    /\ \E o, c \in Slots :
          /\ handles[o].live /\ handles[o].dupOf = 0
          /\ handles[c].live /\ handles[c].dupOf = o
          /\ fut' = [NoTest EXCEPT !.st = "running", !.timer = "armed",
                                  !.o = o, !.c = c]
    /\ UNCHANGED <<handles, sched, fds, devHeld, dev, devAccepted, devConsumed,
                   toWrite, reported, rcvd, last, drv>>

\* core.run polls the future at first and then whenever a source one of
\* its unfinished parts waits for is ready or the timer has fired.
Runnable ==
    \/ ~fut.polled
    \/ fut.w = "pending" /\ sched[handles[fut.o].tok].w
    \/ fut.won = "none" /\ (sched[handles[fut.c].tok].r \/ fut.timer = "fired")

\* The outcome of the whole future once the write task is in state w and
\* the race was won by won.
Joined(w, won) == IF w = "done" /\ won # "none" THEN "ok" ELSE "running"

\* core.run enters the poll of write.join(read.select(timeout)): join
\* polls the write task unless it is done, then the race unless it is.
TestPoll ==
    /\ fut.st = "running"
    /\ fut.at = "wait"
    /\ Runnable
    /\ fut' = [fut EXCEPT !.polled = TRUE,
                          !.at = IF fut.w = "pending" THEN "write" ELSE "race"]
    /\ UNCHANGED <<handles, sched, fds, devHeld, dev, devAccepted, devConsumed,
                   toWrite, reported, rcvd, last, drv>>

\* join polls the write task. When the task completes, join keeps its
\* item and drops the task with the port it owns.
JoinPollWrite(kw) ==
    /\ fut.st = "running"
    /\ fut.at = "write"
    /\ LET o == fut.o
           wp == WritePort_poll(sched[handles[o].tok], dev, toWrite, kw)
           n == IF wp.out.res.kind = "Ok" THEN wp.out.res.n ELSE 0
           polled == [sched EXCEPT ![handles[o].tok] = wp.out.io]
           rel == IF wp.ret = "Ready"
                  THEN SerialPort_drop(polled, fds, handles[o])
                  ELSE [sched |-> polled, fds |-> fds]
           w == IF wp.ret = "Ready" THEN "done" ELSE "pending"
       IN  /\ sched' = rel.sched
           /\ fds' = rel.fds
           /\ devHeld' = (rel.fds # {})
           /\ handles' = IF wp.ret = "Ready"
                         THEN [handles EXCEPT ![o] = NoHandle] ELSE handles
           /\ dev' = wp.out.dev
           /\ reported' = reported \o SubSeq(toWrite, 1, n)
           /\ toWrite' = Drop(toWrite, n)
           /\ devAccepted' = devAccepted \o wp.out.moved
           /\ last' = Call("write", o, "owned", Len(toWrite), wp.out, toWrite,
                           wp.out.moved)
           /\ fut' = [fut EXCEPT
                        !.w = w,
                        !.o = IF w = "done" THEN 0 ELSE @,
                        !.st = CASE wp.ret = "Err" -> "err"
                                 [] wp.ret = "Panic" -> "panic"
                                 [] OTHER -> Joined(w, fut.won),
                        !.at = IF wp.ret \in {"Ready", "NotReady"} /\ fut.won = "none"
                               THEN "race" ELSE "wait"]
    /\ UNCHANGED <<devConsumed, rcvd, drv>>

\* join polls the race: select polls the read task and, if that is not
\* ready, the timer. When the race completes, the read task is dropped
\* with the port it owns, whichever arm won, and so is the timer.
JoinPollRace(kr) ==
    /\ fut.st = "running"
    /\ fut.at = "race"
    /\ LET c == fut.c
           rp == ReadPort_poll(sched[handles[c].tok], dev, kr)
           data == Delivered(rp.out, TestBuf)
           won == CASE rp.ret = "Ready" -> "data"
                    [] rp.ret = "NotReady" /\ fut.timer = "fired" -> "timeout"
                    [] OTHER -> "none"
           polled == [sched EXCEPT ![handles[c].tok] = rp.out.io]
           rel == IF won # "none"
                  THEN SerialPort_drop(polled, fds, handles[c])
                  ELSE [sched |-> polled, fds |-> fds]
       IN  /\ sched' = rel.sched
           /\ fds' = rel.fds
           /\ devHeld' = (rel.fds # {})
           /\ handles' = IF won # "none"
                         THEN [handles EXCEPT ![c] = NoHandle] ELSE handles
           /\ dev' = rp.out.dev
           /\ devConsumed' = devConsumed \o rp.out.moved
           /\ rcvd' = rcvd \o data
           /\ last' = Call("read", c, "owned", TestBuf, rp.out, data, rp.out.moved)
           /\ fut' = [fut EXCEPT
                        !.r = IF rp.ret = "Ready" THEN "done" ELSE @,
                        !.won = won,
                        !.c = IF won # "none" THEN 0 ELSE @,
                        !.timer = IF won # "none" /\ @ = "armed" THEN "off" ELSE @,
                        !.st = CASE rp.ret = "Err" -> "err"
                                 [] rp.ret = "Panic" -> "panic"
                                 [] OTHER -> Joined(fut.w, won),
                        !.at = "wait"]
    /\ UNCHANGED <<devAccepted, toWrite, reported, drv>>

\* The timer of the race is much longer than any step of the program, the
\* reactor or the device: it fires only when none of them has anything
\* left to do.
TimerFire ==
    /\ fut.st = "running"
    /\ fut.timer = "armed"
    /\ fut.at = "wait"
    /\ ~Runnable
    /\ \A t \in Registered : sched[t].w /\ (dev.in = <<>> \/ sched[t].r)
    /\ fut' = [fut EXCEPT !.timer = "fired"]
    /\ UNCHANGED <<handles, sched, fds, devHeld, dev, devAccepted, devConsumed,
                   toWrite, reported, rcvd, last, drv>>

\* ------------------------------------------------------- specifications
Picks == 0..MaxBuf
Lens == 1..MaxBuf

\* The port opened once and used by its caller: reads, writes, flushes and
\* readiness polls through either kind of reference, while the reactor
\* marks readiness and the device layer forces errors.
Next ==
    \/ \E openOk, regOk \in BOOLEAN : Open(openOk, regOk)
    \/ \E h \in Slots, ref \in Refs, n \in Lens, k \in Picks : ReadCall(h, ref, n, k)
    \/ \E h \in Slots, ref \in Refs, n \in Lens, k \in Picks : WriteCall(h, ref, n, k)
    \/ \E h \in Slots, ref \in Refs : FlushCall(h, ref)
    \/ \E h \in Slots, ref \in Refs : PollReadCall(h, ref)
    \/ \E h \in Slots, ref \in Refs : PollWriteCall(h, ref)
    \/ \E t \in Tokens, dir \in {"r", "w"} : MarkReady(t, dir)
    \/ \E g \in Glitches : DeviceGlitch(g)

Spec == Init /\ [][Next]_vars

\* A writer task owning the opened handle and reader tasks owning its
\* duplicates, as in tests::futures.
NextDup ==
    \/ \E openOk, regOk \in BOOLEAN : Open(openOk, regOk)
    \/ \E h \in Slots, dupOk, regOk \in BOOLEAN : TryClone(h, dupOk, regOk)
    \/ \E h \in Slots, n \in Lens, k \in Picks :
           handles[h].dupOf # 0 /\ ReadCall(h, "owned", n, k)
    \/ \E h \in Slots, n \in Lens, k \in Picks :
           handles[h].dupOf = 0 /\ WriteCall(h, "owned", n, k)
    \/ \E t \in Tokens, dir \in {"r", "w"} : MarkReady(t, dir)

SpecDup == Init /\ [][NextDup]_vars

\* Handles opened, duplicated and dropped, and used in between.
NextLife ==
    \/ \E openOk, regOk \in BOOLEAN : Open(openOk, regOk)
    \/ \E h \in Slots, dupOk, regOk \in BOOLEAN : TryClone(h, dupOk, regOk)
    \/ \E h \in Slots : DropHandle(h)
    \/ \E h \in Slots, ref \in Refs, n \in Lens, k \in Picks : ReadCall(h, ref, n, k)
    \/ \E h \in Slots, ref \in Refs : FlushCall(h, ref)
    \/ \E h \in Slots, ref \in Refs : PollReadCall(h, ref)
    \/ \E t \in Tokens, dir \in {"r", "w"} : MarkReady(t, dir)

SpecLife == Init /\ [][NextLife]_vars

\* The example program: main opens the port and runs the Reader on it.
NextDriver ==
    \/ \E openOk, regOk \in BOOLEAN : Open(openOk, regOk)
    \/ \E h \in Slots : ReaderPoll(h)
    \/ \E k \in Picks : ReaderStep(k)
    \/ \E t \in Tokens, dir \in {"r", "w"} : MarkReady(t, dir)
    \/ \E g \in Glitches : DeviceGlitch(g)
    \/ PeerSend
    \/ ReaderExit

SpecDriver == Init /\ [][NextDriver]_vars

\* The example program under edge-triggered readiness: the reactor marks
\* the source readable only when data arrives, and the raw port answers
\* would-block only when it holds no data. The executor polls a notified
\* task and a running poll takes its next turn.
NextEdge ==
    \/ \E openOk, regOk \in BOOLEAN : Open(openOk, regOk)
    \/ \E h \in Slots : ReaderPoll(h)
    \/ \E k \in Picks : ReaderStep(k)
    \/ \E g \in Glitches \ {WouldBlock} : DeviceGlitch(g)
    \/ DataArrives
    \/ ReaderExit

SpecEdge ==
    /\ Init /\ [][NextEdge]_vars
    /\ WF_vars(\E h \in Slots : ReaderPoll(h))
    /\ WF_vars(\E k \in Picks : ReaderStep(k))

\* tests::futures: the port, with or without a loopback, is opened and
\* duplicated and the test's future is run. The reactor reports a
\* source writable, and readable while input is pending; core.run polls
\* the future whenever it can make progress, and a poll runs to its end.
NextTest ==
    \/ \E openOk, regOk \in BOOLEAN : fut.st = "idle" /\ Open(openOk, regOk)
    \/ \E h \in Slots, dupOk, regOk \in BOOLEAN :
           fut.st = "idle" /\ TryClone(h, dupOk, regOk)
    \/ PlainDevice
    \/ TestRun
    \/ TestPoll
    \/ \E kw \in 0..MaxMsg : JoinPollWrite(kw)
    \/ \E kr \in 0..MaxMsg : JoinPollRace(kr)
    \/ \E t \in Tokens : MarkReady(t, "w")
    \/ \E t \in Tokens : dev.in # <<>> /\ MarkReady(t, "r")
    \/ TimerFire

SpecTest ==
    /\ Init /\ [][NextTest]_vars
    /\ WF_vars(TestPoll)
    /\ WF_vars(\E kw \in 0..MaxMsg : JoinPollWrite(kw))
    /\ WF_vars(\E kr \in 0..MaxMsg : JoinPollRace(kr))
    /\ WF_vars(\E t \in Tokens : MarkReady(t, "w"))
    /\ WF_vars(\E t \in Tokens : dev.in # <<>> /\ MarkReady(t, "r"))

\* =============================================================== claims

C2_WouldBlockNotRetried ==
    (last.op = "read" /\ last.answers # <<>> /\ last.answers[1] = WouldBlock) =>
        /\ last.res = WouldBlock
        /\ last.attempts = 1
        /\ Len(last.answers) = 1
        /\ last.data = <<>>

\* A read that the raw port answered with would-block, on a device with
\* nothing to read.
C2_Witness ==
    /\ last.op = "read"
    /\ last.answers = <<WouldBlock>>
    /\ last.res = WouldBlock
    /\ dev.in = <<>>

\* C3: an error of the raw port's read that is neither would-block nor
\* timeout reaches the caller of read unchanged, kind and cause, after one
\* attempt, and leaves the cached read-readiness as it was (it is not taken
\* for not-ready).
C3_FatalErrorUnchanged ==
    (last.op = "read" /\ last.answers # <<>> /\ last.answers[1].kind = "Other") =>
        /\ last.res = last.answers[1]
        /\ last.res.cause \in FatalCauses
        /\ last.attempts = 1
        /\ Len(last.answers) = 1
        /\ last.data = <<>>
        /\ sched[handles[last.h].tok].r

\* A read that failed with ENODEV while data was pending.
C3_Witness ==
    /\ last.op = "read"
    /\ last.res = Err("Other", "ENODEV")
    /\ dev.in # <<>>

\* C4: write and flush make one call on io, hence at most one raw attempt,
\* and return its outcome as it is: would-block when the adapter did not
\* let the call through, the raw port's answer otherwise, a timeout
\* included.
C4_WriteFlushSingleAttempt ==
    last.op \in {"write", "flush"} =>
        /\ last.attempts = 1
        /\ Len(last.answers) <= 1
        /\ last.answers # <<>> => last.res = last.answers[1]
        /\ last.answers = <<>> => last.res = WouldBlock
        /\ last.res.kind \in {"Ok", "WouldBlock", "TimedOut", "Other"}

\* A write that the raw port answered with a timeout, returned as an error.
C4_Witness ==
    /\ last.op = "write"
    /\ last.answers = <<TimedOut>>
    /\ last.res = TimedOut
    /\ last.moved = <<>>

\* C5: on the loopback device the bytes returned by successful reads, in
\* order, followed by the bytes still pending in the device and the bytes
\* the writer has not yet got accepted, are the original sequence: once
\* everything is written and read, the reads returned exactly the original.
C5_RoundTrip ==
    /\ rcvd \o dev.in \o toWrite = Msg
    /\ (toWrite = <<>> /\ dev.in = <<>>) => rcvd = Msg

\* The whole sequence has come back, the last read being a partial one.
C5_Witness ==
    /\ rcvd = Msg
    /\ last.op = "read"
    /\ last.data # <<>>
    /\ Len(last.data) < Len(Msg)

\* C6: a write call that returns Ok(n) has n within its buffer and the
\* device has accepted exactly the first n bytes of it; a write call that
\* returns would-block or an error has had nothing accepted; so the bytes
\* the device accepted are the bytes reported as written, and the caller's
\* remaining slice is the rest.
C6_WriteNeverDrops ==
    /\ devAccepted = reported
    /\ reported \o toWrite = Msg
    /\ last.op = "write" =>
          IF last.res.kind = "Ok"
          THEN /\ last.res.n <= Len(last.data)
               /\ last.moved = SubSeq(last.data, 1, last.res.n)
          ELSE last.moved = <<>>

\* A partial write: fewer bytes accepted than the chunk held.
C6_Witness ==
    /\ last.op = "write"
    /\ last.res.kind = "Ok"
    /\ last.res.n > 0
    /\ last.res.n < Len(last.data)

\* C7: bytes leave the device's input only in read calls that return
\* Ok(n), exactly n of them, n within the buffer, and they are the bytes the
\* caller gets; a read call that returns would-block or an error removes
\* nothing and delivers nothing.
C7_NotReadyCarriesNoData ==
    /\ devConsumed = rcvd
    /\ last.op = "read" =>
          IF last.res.kind = "Ok"
          THEN /\ last.res.n <= last.len
               /\ Len(last.moved) = last.res.n
               /\ last.data = last.moved
          ELSE /\ last.moved = <<>>
               /\ last.data = <<>>

\* A read that returned would-block while the device had input pending and
\* after earlier reads had returned data.
C7_Witness ==
    /\ last.op = "read"
    /\ last.res = WouldBlock
    /\ dev.in # <<>>
    /\ rcvd # <<>>

Live == {h \in Slots : handles[h].live}

\* C9: with a writer on the opened handle and a reader on a duplicate of
\* it, in any interleaving, the two handles have descriptors and
\* registrations of their own, the device accepts the writer's bytes in
\* write order, and the reader's bytes are a prefix, in device order, of
\* what the device delivers.
C9_DuplicatesKeepOrder ==
    /\ \A a, b \in Live : a # b =>
          /\ handles[a].fd # handles[b].fd
          /\ handles[a].tok # handles[b].tok
    /\ devAccepted = reported
    /\ \E k \in 0..Len(Msg) : devAccepted = SubSeq(Msg, 1, k)
    /\ \E k \in 0..Len(devAccepted) : rcvd = SubSeq(devAccepted, 1, k)
    /\ dev.in = Drop(devAccepted, Len(rcvd))

\* The writer has written everything on the original and the reader has
\* read part of it on the duplicate, more being on the way.
C9_Witness ==
    /\ Cardinality(Live) = 2
    /\ last.op = "read"
    /\ handles[last.h].dupOf # 0
    /\ last.res.kind = "Ok"
    /\ toWrite = <<>>
    /\ rcvd # <<>>
    /\ dev.in # <<>>

\* C10: the scheduler holds a registration exactly for the tokens of live
\* handles, so none for a dropped handle, and an unregistered token has no
\* readiness left; every live handle keeps its own registration and open
\* descriptor whatever other handle was dropped; the open descriptors are
\* those of the live handles; the device is held as long as a handle lives.
C10_DropReleasesOnlyOwn ==
    /\ \A t \in Tokens : sched[t].reg <=> \E h \in Live : handles[h].tok = t
    /\ \A t \in Tokens : ~sched[t].reg => sched[t] = Unreg
    /\ \A h \in Live :
          /\ sched[handles[h].tok].reg
          /\ sched[handles[h].tok].fd = handles[h].fd
          /\ handles[h].fd \in fds
    /\ \A a, b \in Live : a # b =>
          /\ handles[a].fd # handles[b].fd
          /\ handles[a].tok # handles[b].tok
    /\ fds = {handles[h].fd : h \in Live}
    /\ devHeld <=> Live # {}

\* The opened handle has been dropped while its duplicate lives on with
\* read-readiness cached.
C10_Witness ==
    /\ last.op = "drop"
    /\ last.h = 1
    /\ ~handles[1].live
    /\ handles[2].live
    /\ handles[2].dupOf = 1
    /\ sched[handles[2].tok].r
    /\ ~sched[1].reg
    /\ devHeld

\* C12: open_with_settings returns a handle only when both opening the raw
\* port and registering it succeed. When the open fails its error is
\* returned and no registration is attempted; when the registration fails
\* its error is returned, no handle exists, and neither a registration
\* nor the port's descriptor remains.
C12_OpenAllOrNothing ==
    [][\A o, r \in BOOLEAN : Open(o, r) =>
         /\ (last'.res.kind = "Ok") <=> (o /\ r)
         /\ (o /\ r) =>
               /\ last'.regs = 1
               /\ Live' = {last'.h}
               /\ Registered' = {handles'[last'.h].tok}
               /\ fds' = {handles'[last'.h].fd}
               /\ sched'[handles'[last'.h].tok].fd = handles'[last'.h].fd
         /\ ~o => last'.res = OpenError /\ last'.regs = 0
         /\ (o /\ ~r) => last'.res = RegError /\ last'.regs = 1
         /\ ~(o /\ r) =>
               /\ last'.h = 0
               /\ Live' = {} /\ Registered' = {} /\ fds' = {} /\ ~devHeld'
      ]_vars

C12_Witness ==
    /\ last.op = "open" /\ last.res = RegError /\ last.regs = 1
    /\ Live = {} /\ Registered = {} /\ fds = {}

Cached(b) == Async(IF b THEN "Ready" ELSE "NotReady")

\* C13: poll_read and poll_write answer with the readiness cached for
\* their direction and change nothing. A cached read-readiness is cleared
\* only by a read on that handle whose raw attempt answered would-block,
\* a cached write-readiness only by such a write or flush, and a cleared
\* readiness comes back only when the reactor marks the source ready.
C13_PollKeepsCachedReadiness ==
    [][/\ \A h \in Slots, ref \in Refs :
            /\ PollReadCall(h, ref) =>
                  /\ last'.res = Cached(sched[handles[h].tok].r)
                  /\ sched' = sched /\ dev' = dev
            /\ PollWriteCall(h, ref) =>
                  /\ last'.res = Cached(sched[handles[h].tok].w)
                  /\ sched' = sched /\ dev' = dev
       /\ \A t \in Tokens :
            /\ (sched[t].reg /\ sched'[t].reg /\ sched[t].r /\ ~sched'[t].r) =>
                  /\ last'.op = "read" /\ handles[last'.h].tok = t
                  /\ last'.res = WouldBlock /\ last'.answers = <<WouldBlock>>
            /\ (sched[t].reg /\ sched'[t].reg /\ sched[t].w /\ ~sched'[t].w) =>
                  /\ last'.op \in {"write", "flush"} /\ handles[last'.h].tok = t
                  /\ last'.res = WouldBlock /\ last'.answers = <<WouldBlock>>
            /\ (sched[t].reg /\ ~sched[t].r /\ sched'[t].r) => MarkReady(t, "r")
            /\ (sched[t].reg /\ ~sched[t].w /\ sched'[t].w) => MarkReady(t, "w")
      ]_vars

\* A poll answers NotReady on a source that was readable before: bytes
\* were read from it and a later read cleared the cache.
C13_Witness ==
    /\ last.op = "poll_read" /\ last.res = Async("NotReady")
    /\ devConsumed # <<>>
    /\ ~sched[handles[last.h].tok].r

\* C15: a read that reports would-block parks the task: poll returns
\* NotReady at once instead of retrying or completing, and an invocation
\* in which every read reported would-block made exactly one read with at
\* most one raw attempt. While the task is parked no read happens, and it
\* is polled again only after the reactor marked the source readable.
C15_WouldBlockParksOnce ==
    /\ [](/\ drv.res = WouldBlock => drv.pc = "parked"
          /\ drv.pc = "parked" =>
                /\ drv.res = WouldBlock /\ drv.ret = Async("NotReady")
                /\ (~drv.oks /\ drv.timeouts = 0) =>
                      drv.reads = 1 /\ drv.raw <= 1)
    /\ [][drv.pc = "parked" =>
            /\ last' = last /\ rcvd' = rcvd /\ devConsumed' = devConsumed
            /\ drv'.pc # "parked" =>
                  /\ drv.woken /\ sched[handles[drv.h].tok].r
                  /\ drv'.pc = "loop" /\ drv'.reads = 0
         ]_vars

\* The task is parked after an invocation whose only read found the
\* source readable and got would-block from the raw port.
C15_Witness ==
    /\ drv.pc = "parked" /\ ~drv.oks /\ drv.timeouts = 0
    /\ drv.reads = 1 /\ drv.raw = 1
    /\ last.answers = <<WouldBlock>>
    /\ ~drv.woken

Ended == drv.pc \in {"failed", "exited"}

\* C16: the task ends exactly when a read returns an error that is
\* neither a timeout nor would-block; poll then returns that error
\* unchanged, as the raw port answered it, and no read follows. poll never
\* returns Ready, and never returns would-block or a timeout as an error.
C16_EndsOnlyWithFatalError ==
    /\ [](/\ Ended <=> drv.res.kind \notin {"Ok", "TimedOut", "WouldBlock"}
          /\ Ended <=> drv.ret.kind \notin {"Pending", "NotReady"}
          /\ Ended => /\ drv.ret = drv.res
                      /\ drv.ret.kind = "Other"
                      /\ drv.ret.cause \in FatalCauses
          /\ drv.pc = "failed" =>
                /\ last.op = "read" /\ last.res = drv.ret
                /\ last.answers = <<drv.ret>>
          /\ drv.pc \in {"idle", "loop", "parked", "failed", "exited"})
    /\ [][Ended =>
            /\ rcvd' = rcvd /\ devConsumed' = devConsumed
            /\ last' = last \/ last'.op # "read"
            /\ drv'.res = drv.res /\ drv'.ret = drv.ret /\ Ended'
         ]_vars

\* The task ended with the device's error after it had delivered bytes.
C16_Witness ==
    /\ drv.pc = "failed" /\ drv.ret = Err("Other", "EIO")
    /\ rcvd # <<>>

\* C14: after every successful read the Reader goes on to another read,
\* and poll returns NotReady only right after a read that reported
\* would-block. Under edge-triggered readiness a parked task that was not
\* notified has left no data at the device, and every byte that arrives
\* is eventually read unless the task ended with an error.
C14_DrainsBeforeYielding ==
    /\ [](/\ (drv.pc # "idle" /\ drv.res.kind = "Ok") => drv.pc = "loop"
          /\ drv.pc = "parked" =>
                /\ last.op = "read" /\ last.res = WouldBlock
                /\ drv.res = WouldBlock
                /\ ~drv.woken => dev.in = <<>>)
    /\ \A n \in 1..MaxMsg :
          (Len(devAccepted) >= n) ~> (Len(devConsumed) >= n \/ Ended)

\* The task read a byte, drained the device, parked on would-block, and
\* after the next arrival was polled again and read that byte too.
C14_Witness ==
    /\ Len(devConsumed) >= 2 /\ devConsumed = devAccepted
    /\ drv.pc = "parked" /\ ~drv.woken
    /\ drv.oks /\ last.answers = <<WouldBlock>>

\* C18: every invocation of Reader::poll returns after finitely many
\* reads.
C18_PollReturns == (drv.pc = "loop") ~> (drv.pc # "loop")

Others(h) == Live \ {h}

\* C17: every live handle has one registration of its own for one
\* descriptor of its own, so that registrations, descriptors and live
\* handles are equally many after any sequence of open, try_clone and
\* drop. A registration made by open or try_clone is a new one, for a
\* new descriptor, with nothing cached, and leaves the others as they
\* were. The readiness cached for a handle changes only when the reactor
\* marks it or in a read or flush through that very handle, so a call
\* through one handle never changes what is cached for another.
C17_OneRegistrationPerHandle ==
    /\ [](/\ Cardinality(Registered) = Cardinality(Live)
          /\ Cardinality(fds) = Cardinality(Live)
          /\ \A h \in Live :
                /\ handles[h].tok \in Registered
                /\ sched[handles[h].tok].fd = handles[h].fd
                /\ handles[h].fd \in fds
                /\ \A g \in Others(h) :
                      /\ handles[g].tok # handles[h].tok
                      /\ handles[g].fd # handles[h].fd)
    /\ [][\A t \in Tokens :
            /\ (t \in Registered /\ t \in Registered' /\ sched'[t] # sched[t]) =>
                  \/ /\ last' = last
                     /\ sched[t].r => sched'[t].r
                     /\ sched[t].w => sched'[t].w
                  \/ /\ last'.op \in {"read", "flush"}
                     /\ handles[last'.h].tok = t
            /\ (t \notin Registered /\ t \in Registered') =>
                  /\ last'.op \in {"open", "try_clone"}
                  /\ sched'[t].fd \notin fds
                  /\ ~sched'[t].r /\ ~sched'[t].w
                  /\ \A u \in Registered : sched'[u] = sched[u]
         ]_vars

\* A read through one of two handles got would-block and cleared its own
\* cached readiness while the other handle's stays.
C17_Witness ==
    /\ Cardinality(Live) = 2
    /\ last.op = "read" /\ last.answers = <<WouldBlock>>
    /\ ~sched[handles[last.h].tok].r
    /\ \E g \in Others(last.h) : sched[handles[g].tok].r

\* C19: try_clone leaves every existing handle, its registration and its
\* cached readiness as they were, whether it succeeds or fails, and does
\* not touch the device. It returns Ok exactly when both the duplication
\* and the registration succeed. When the duplication fails its error is
\* returned and no registration is attempted; when the registration fails
\* its error is returned and neither the duplicated descriptor nor a new
\* registration remains.
C19_TryCloneFrame ==
    [][\A h \in Slots, d, r \in BOOLEAN : TryClone(h, d, r) =>
         /\ \A g \in Live :
               /\ handles'[g] = handles[g]
               /\ sched'[handles[g].tok] = sched[handles[g].tok]
         /\ dev' = dev /\ fds \subseteq fds' /\ Registered \subseteq Registered'
         /\ (last'.res.kind = "Ok") <=> (d /\ r)
         /\ ~d => last'.res = DupError /\ last'.regs = 0
         /\ (d /\ ~r) => last'.res = RegError /\ last'.regs = 1
         /\ ~(d /\ r) => handles' = handles /\ sched' = sched /\ fds' = fds
         /\ (d /\ r) =>
               /\ last'.regs = 1
               /\ Cardinality(Live') = Cardinality(Live) + 1
               /\ Cardinality(fds') = Cardinality(fds) + 1
      ]_vars

\* Registering the duplicate failed while the original had readiness
\* cached, which it keeps.
C19_Witness ==
    /\ last.op = "try_clone" /\ last.res = RegError /\ last.regs = 1
    /\ Live = {last.h}
    /\ sched[handles[last.h].tok].r
    /\ Cardinality(fds) = 1 /\ Cardinality(Registered) = 1

IsPrefix(a, b) == Len(a) <= Len(b) /\ a = SubSeq(b, 1, Len(a))

\* C11: on a loopback device the test's future, once run, eventually
\* completes without error with the race won by the read task, which has
\* then read at least one byte and only bytes the write task wrote, in
\* their order; the race never completes on the timer and neither task
\* fails.
C11_LoopbackTestCompletes ==
    /\ [](dev.loop =>
            /\ fut.won # "timeout"
            /\ fut.st \notin {"err", "panic"}
            /\ (fut.r = "done") <=> (fut.won = "data")
            /\ fut.r = "done" =>
                  /\ rcvd # <<>>
                  /\ IsPrefix(rcvd, reported)
                  /\ IsPrefix(reported, Msg))
    /\ (fut.st = "running" /\ dev.loop) ~>
          (fut.st = "ok" /\ fut.won = "data" /\ fut.w = "done")

\* The test completed on a loopback: the write task wrote part of the
\* message and the read task on the duplicate got what was written.
C11_Witness ==
    /\ dev.loop
    /\ fut.st = "ok" /\ fut.won = "data" /\ fut.w = "done"
    /\ Len(reported) >= 2 /\ rcvd = reported
    /\ Live = {}

====
